---- MODULE Spec2Model ----
(***************************************************************************)
(* The checkout workflow of the e-commerce backend: the Money and Quantity *)
(* value objects, the Product, Basket and Order entities, the three        *)
(* repositories (as tables) and the application services that orchestrate  *)
(* them.  Service calls are modelled step by step, one step per repository *)
(* call, so that calls can interleave where the code lets them.            *)
(***************************************************************************)
EXTENDS Integers, Sequences, FiniteSets, TLC

\* ---------------------------------------------------------------- bounds
MaxStock == 2
MaxQty == 2
MaxCalls == 4
\* The width, in bits, at which the model keeps Go's int and int64 (64 bits in
\* the build): arithmetic wraps at this width as it does at 64.
IntBits == 14

ProductIds == {"p1", "p2"}
BasketIds == {"b1", "b2"}
Currencies == {"USD", "EUR"}
Procs == {"c1", "c2"}

\* The catalogue price (in cents) a product is created with.
PriceOf(p) == IF p = "p1" THEN 1000 ELSE 250

\* ------------------------------------------------------ machine integers
MaxInt == 2 ^ (IntBits - 1) - 1
MinInt == -(2 ^ (IntBits - 1))

\* The value a signed integer variable holds after an arithmetic result x.
Wrap(x) == ((x - MinInt) % (2 ^ IntBits)) + MinInt

\* ---------------------------------------------------------- value objects
\* A nil *Money / a call that returned (nil, err).
NilMoney == [amount |-> 0, currency |-> ""]

MoneyOk(m) == [ok |-> TRUE, val |-> m, err |-> "none"]
MoneyErr(e) == [ok |-> FALSE, val |-> NilMoney, err |-> e]

NewMoney(amount, currency) ==
    IF amount < 0 THEN MoneyErr("amount cannot be negative")
    ELSE IF currency = "" THEN MoneyErr("currency cannot be empty")
    ELSE MoneyOk([amount |-> amount, currency |-> currency])

MoneyAdd(m, other) ==
    IF m.currency # other.currency
    THEN MoneyErr("cannot add money with different currencies")
    ELSE NewMoney(Wrap(m.amount + other.amount), m.currency)

MoneyMultiply(m, quantity) ==
    IF quantity < 0 THEN MoneyErr("quantity cannot be negative")
    ELSE NewMoney(Wrap(m.amount * quantity), m.currency)

QtyOk(q) == [ok |-> TRUE, val |-> q, err |-> "none"]
QtyErr(e) == [ok |-> FALSE, val |-> 0, err |-> e]

NewQuantity(value) ==
    IF value < 0 THEN QtyErr("quantity cannot be negative") ELSE QtyOk(value)

QuantityAdd(q, other) == NewQuantity(Wrap(q + other))

\* Subtract without its check of a negative result.
QuantitySubtractUnchecked(q, other) == QtyOk(Wrap(q - other))

\* Subtract returning the magnitude of the difference.
QuantitySubtractMagnitude(q, other) ==
    LET result == Wrap(q - other)
    IN  IF result < 0 THEN NewQuantity(-result) ELSE NewQuantity(result)

QuantitySubtract(q, other) ==
    LET result == Wrap(q - other)
    IN  IF result < 0 THEN QtyErr("resulting quantity cannot be negative")
        ELSE NewQuantity(result)

\* ------------------------------------------------------------- product
\* A row of the products table; live = FALSE is an id with no row.
NoProduct == [live |-> FALSE, deleted |-> FALSE, stock |-> 0, price |-> NilMoney]
DeletedProduct == [live |-> FALSE, deleted |-> TRUE, stock |-> 0, price |-> NilMoney]

NewProduct(price, stock) ==
    [live |-> TRUE, deleted |-> FALSE, stock |-> stock, price |-> price]

ProductUpdateStock(p, stock) == [p EXCEPT !.stock = stock]

\* ReduceStock without the check of Subtract's error.
ReduceStockUnchecked(p, quantity) ==
    [ok |-> TRUE, val |-> [p EXCEPT !.stock = p.stock - quantity], err |-> "none"]

\* ReduceStock without the assignment p.stock = newStock.
ReduceStockKeepsStock(p, quantity) ==
    LET r == QuantitySubtract(p.stock, quantity)
    IN  IF ~r.ok THEN [ok |-> FALSE, val |-> p, err |-> "insufficient stock"]
        ELSE [ok |-> TRUE, val |-> p, err |-> "none"]

ProductReduceStock(p, quantity) ==
    LET r == QuantitySubtract(p.stock, quantity)
    IN  IF ~r.ok THEN [ok |-> FALSE, val |-> p, err |-> "insufficient stock"]
        ELSE [ok |-> TRUE, val |-> [p EXCEPT !.stock = r.val], err |-> "none"]

\* -------------------------------------------------------------- basket
NilItem == [productID |-> "", quantity |-> 0, price |-> NilMoney]

\* NewBasketItem without its quantity.IsZero() check.
NewBasketItemAnyQuantity(productID, quantity, price) ==
    IF productID = "" THEN [ok |-> FALSE, val |-> NilItem, err |-> "product ID cannot be empty"]
    ELSE IF price = NilMoney
    THEN [ok |-> FALSE, val |-> NilItem, err |-> "price cannot be nil"]
    ELSE [ok |-> TRUE,
          val |-> [productID |-> productID, quantity |-> quantity, price |-> price],
          err |-> "none"]

NewBasketItem(productID, quantity, price) ==
    IF productID = "" THEN [ok |-> FALSE, val |-> NilItem, err |-> "product ID cannot be empty"]
    ELSE IF quantity = 0
    THEN [ok |-> FALSE, val |-> NilItem, err |-> "quantity must be greater than zero"]
    ELSE IF price = NilMoney
    THEN [ok |-> FALSE, val |-> NilItem, err |-> "price cannot be nil"]
    ELSE [ok |-> TRUE,
          val |-> [productID |-> productID, quantity |-> quantity, price |-> price],
          err |-> "none"]

\* A search that never matches.
IndexOfNone(items, productID) == 0

\* The index of the first item for productID, 0 when there is none.
IndexOf(items, productID) ==
    IF \E i \in 1..Len(items) : items[i].productID = productID
    THEN CHOOSE i \in 1..Len(items) :
            /\ items[i].productID = productID
            /\ \A j \in 1..(i - 1) : items[j].productID # productID
    ELSE 0

BasketAddItem(items, productID, quantity, price) ==
    LET i == IndexOf(items, productID)
    IN  IF i > 0
        THEN LET nq == QuantityAdd(items[i].quantity, quantity)
                 ni == NewBasketItem(productID, nq.val, price)
             IN  IF ~nq.ok THEN [ok |-> FALSE, items |-> items, err |-> nq.err]
                 ELSE IF ~ni.ok THEN [ok |-> FALSE, items |-> items, err |-> ni.err]
                 ELSE [ok |-> TRUE, items |-> [items EXCEPT ![i] = ni.val], err |-> "none"]
        ELSE LET it == NewBasketItem(productID, quantity, price)
             IN  IF ~it.ok THEN [ok |-> FALSE, items |-> items, err |-> it.err]
                 ELSE [ok |-> TRUE, items |-> Append(items, it.val), err |-> "none"]

\* b.items[:i-1] alone: the items after the i-th are dropped with it.
WithoutItemAndRest(items, i) == SubSeq(items, 1, i - 1)

\* append(b.items[:i], b.items[i+1:]...): the items without the i-th.
WithoutItem(items, i) == SubSeq(items, 1, i - 1) \o SubSeq(items, i + 1, Len(items))

BasketRemoveItem(items, productID) ==
    LET i == IndexOf(items, productID)
    IN  IF i > 0 THEN [ok |-> TRUE, items |-> WithoutItem(items, i), err |-> "none"]
        ELSE [ok |-> FALSE, items |-> items, err |-> "item not found in basket"]

\* UpdateItemQuantity adding the quantity to the item's, as AddItem does.
BasketUpdateItemQuantityAdds(items, productID, quantity) ==
    IF quantity = 0 THEN BasketRemoveItem(items, productID)
    ELSE LET i == IndexOf(items, productID)
         IN  IF i > 0
             THEN [ok |-> TRUE,
                   items |-> [items EXCEPT ![i].quantity = Wrap(@ + quantity)],
                   err |-> "none"]
             ELSE [ok |-> FALSE, items |-> items, err |-> "item not found in basket"]

BasketUpdateItemQuantity(items, productID, quantity) ==
    IF quantity = 0 THEN BasketRemoveItem(items, productID)
    ELSE LET i == IndexOf(items, productID)
         IN  IF i > 0
             THEN LET ni == NewBasketItem(productID, quantity, items[i].price)
                  IN  IF ~ni.ok THEN [ok |-> FALSE, items |-> items, err |-> ni.err]
                      ELSE [ok |-> TRUE, items |-> [items EXCEPT ![i] = ni.val],
                            err |-> "none"]
             ELSE [ok |-> FALSE, items |-> items, err |-> "item not found in basket"]

BasketClear(items) == <<>>

\* count += item.quantity.Value() over items[i..].
RECURSIVE CountFrom(_, _, _)
CountFrom(items, i, count) ==
    IF i > Len(items) THEN count
    ELSE CountFrom(items, i + 1, Wrap(count + items[i].quantity))

BasketItemCount(items) == CountFrom(items, 1, 0)

ItemSubtotal(item) == MoneyMultiply(item.price, item.quantity)

\* total, err = total.Add(item.Subtotal()) over items[i..], stopping at the first error.
RECURSIVE SumFrom(_, _, _)
SumFrom(items, i, total) ==
    IF i > Len(items) THEN MoneyOk(total)
    ELSE LET sub == ItemSubtotal(items[i])
         IN  IF ~sub.ok THEN sub
             ELSE LET t == MoneyAdd(total, sub.val)
                  IN  IF ~t.ok THEN t ELSE SumFrom(items, i + 1, t.val)

BasketTotal(items) ==
    IF Len(items) = 0 THEN NewMoney(0, "USD")
    ELSE LET z == NewMoney(0, items[1].price.currency)
         IN  IF ~z.ok THEN z ELSE SumFrom(items, 1, z.val)

\* --------------------------------------------------------------- order
NilOrder == [id |-> 0, items |-> <<>>, total |-> NilMoney, status |-> "",
             createdAt |-> 0, updatedAt |-> 0]

OrderOk(o) == [ok |-> TRUE, val |-> o, err |-> "none"]
OrderErr(e) == [ok |-> FALSE, val |-> NilOrder, err |-> e]

NewOrderItem(productID, quantity, price) ==
    IF productID = "" THEN [ok |-> FALSE, val |-> NilItem, err |-> "product ID cannot be empty"]
    ELSE IF quantity = 0
    THEN [ok |-> FALSE, val |-> NilItem, err |-> "quantity must be greater than zero"]
    ELSE IF price = NilMoney
    THEN [ok |-> FALSE, val |-> NilItem, err |-> "price cannot be nil"]
    ELSE [ok |-> TRUE,
          val |-> [productID |-> productID, quantity |-> quantity, price |-> price],
          err |-> "none"]

\* id stands for the fresh uuid, now for time.Now().
NewOrder(basketItems, id, now) ==
    IF Len(basketItems) = 0 THEN OrderErr("cannot create order with empty basket")
    ELSE LET conv == [i \in 1..Len(basketItems) |->
                        NewOrderItem(basketItems[i].productID, basketItems[i].quantity,
                                     basketItems[i].price)]
         IN  IF \E i \in 1..Len(basketItems) : ~conv[i].ok
             THEN OrderErr(conv[CHOOSE i \in 1..Len(basketItems) :
                                  /\ ~conv[i].ok
                                  /\ \A j \in 1..(i - 1) : conv[j].ok].err)
             ELSE LET orderItems == [i \in 1..Len(basketItems) |-> conv[i].val]
                      z == NewMoney(0, basketItems[1].price.currency)
                      total == IF z.ok THEN SumFrom(orderItems, 1, z.val) ELSE z
                  IN  IF ~total.ok THEN OrderErr(total.err)
                      ELSE OrderOk([id |-> id, items |-> orderItems, total |-> total.val,
                                    status |-> "PENDING", createdAt |-> now,
                                    updatedAt |-> now])

EntityOk(o) == [ok |-> TRUE, order |-> o, err |-> "none"]
EntityErr(o, e) == [ok |-> FALSE, order |-> o, err |-> e]

\* Confirm without its status guard.
OrderConfirmUnguarded(o, now) ==
    EntityOk([o EXCEPT !.status = "CONFIRMED", !.updatedAt = now])

OrderConfirm(o, now) ==
    IF o.status # "PENDING" THEN EntityErr(o, "only pending orders can be confirmed")
    ELSE EntityOk([o EXCEPT !.status = "CONFIRMED", !.updatedAt = now])

\* Ship guarded against the terminal statuses only.
OrderShipFromPending(o, now) ==
    IF o.status \in {"SHIPPED", "DELIVERED", "CANCELLED"}
    THEN EntityErr(o, "only confirmed orders can be shipped")
    ELSE EntityOk([o EXCEPT !.status = "SHIPPED", !.updatedAt = now])

OrderShip(o, now) ==
    IF o.status # "CONFIRMED" THEN EntityErr(o, "only confirmed orders can be shipped")
    ELSE EntityOk([o EXCEPT !.status = "SHIPPED", !.updatedAt = now])

\* Deliver with updatedAt assigned before the status guard.
OrderDeliverTouches(o, now) ==
    IF o.status # "SHIPPED"
    THEN EntityErr([o EXCEPT !.updatedAt = now], "only shipped orders can be delivered")
    ELSE EntityOk([o EXCEPT !.status = "DELIVERED", !.updatedAt = now])

OrderDeliver(o, now) ==
    IF o.status # "SHIPPED" THEN EntityErr(o, "only shipped orders can be delivered")
    ELSE EntityOk([o EXCEPT !.status = "DELIVERED", !.updatedAt = now])

\* Cancel without the guard against DELIVERED.
OrderCancelDelivered(o, now) ==
    IF o.status = "CANCELLED" THEN EntityErr(o, "order is already cancelled")
    ELSE EntityOk([o EXCEPT !.status = "CANCELLED", !.updatedAt = now])

OrderCancel(o, now) ==
    IF o.status = "DELIVERED" THEN EntityErr(o, "delivered orders cannot be cancelled")
    ELSE IF o.status = "CANCELLED" THEN EntityErr(o, "order is already cancelled")
    ELSE EntityOk([o EXCEPT !.status = "CANCELLED", !.updatedAt = now])

OrderIsCancellable(o) == o.status # "DELIVERED" /\ o.status # "CANCELLED"

\* ================================================================ state
VARIABLES
    products,   \* the products table: product id -> row
    baskets,    \* the baskets and basket_items tables: basket id -> [exists, items]
    orders,     \* the orders and order_items tables, in insertion order
    pc,         \* where each CreateOrder call stands
    bid,        \* req.BasketID of the call
    items,      \* basket.Items() as loaded by the call
    idx,        \* the loop index of the call (1-based)
    prod,       \* the product the reduce loop holds between FindByID and Update
    res,        \* the error the call returned, "ok" for none
    out,        \* the order the call built
    pre,        \* the storage as it was when the call began, and the calls done by then
    checked,    \* the item indices the pre-check loop has passed
    wrote,      \* the product writes of the call, in order: the stock written, and
                \* the calls whose pre-check loop had finished when the write landed
    ent,        \* an Order entity held in memory
    call,       \* the last method called on ent, its result and the entity before it
    clock,      \* time.Now()
    mem,        \* the backing arrays of the slices held in memory: array id -> cells
    bsk,        \* Basket.items of a Basket held in memory: a slice [arr, len]
    oitems,     \* Order.items of the order built from that basket: a slice [arr, len]
    rec,        \* the last call on a value object or on the basket, with its result
    arg,        \* the operands a value-object method is applied to
    svc         \* each other service call in flight: its operation, where it
                \* stands, what it loaded and holds in memory, what it returned

storage == <<products, baskets, orders>>
checkoutVars == <<pc, bid, items, idx, prod, res, out, pre, checked, wrote>>
callVars == <<checkoutVars, svc>>
memVars == <<mem, bsk, oitems, rec, arg>>
entVars == <<ent, call, clock, mem, bsk, oitems, rec, arg>>
vars == <<products, baskets, orders, pc, bid, items, idx, prod, res, out, pre,
          checked, wrote, ent, call, clock, mem, bsk, oitems, rec, arg, svc>>

NoBasket == [exists |-> FALSE, items |-> <<>>]
NoCall == [op |-> "none", ok |-> TRUE, before |-> NilOrder]
NoSvc == [op |-> "none", pc |-> "idle", id |-> "", order |-> NilOrder,
          items |-> <<>>, productID |-> "", quantity |-> 0, stock |-> 0,
          pre |-> <<>>, err |-> "none"]

StorageInit ==
    /\ products = [p \in ProductIds |-> NoProduct]
    /\ baskets = [b \in BasketIds |-> NoBasket]
    /\ orders = <<>>

CallInit ==
    /\ pc = [c \in Procs |-> "idle"]
    /\ bid = [c \in Procs |-> ""]
    /\ items = [c \in Procs |-> <<>>]
    /\ idx = [c \in Procs |-> 0]
    /\ prod = [c \in Procs |-> NoProduct]
    /\ res = [c \in Procs |-> "none"]
    /\ out = [c \in Procs |-> NilOrder]
    /\ pre = [c \in Procs |-> [products |-> products, baskets |-> baskets,
                               orders |-> orders, done |-> {}]]
    /\ checked = [c \in Procs |-> {}]
    /\ wrote = [c \in Procs |-> <<>>]
    /\ svc = [c \in Procs |-> NoSvc]

\* A nil slice, and no array allocated.
NilSlice == [arr |-> 0, len |-> 0]
ArrayIds == 1..3
NoRec == [op |-> "none"]

MemIdle ==
    /\ mem = [a \in ArrayIds |-> <<>>]
    /\ bsk = NilSlice
    /\ oitems = NilSlice
    /\ rec = NoRec
    /\ arg = <<>>

EntIdle ==
    /\ ent = NilOrder
    /\ call = NoCall
    /\ clock = 0
    /\ MemIdle

Init == StorageInit /\ CallInit /\ EntIdle

\* ---------------------------------------------------- repositories (rows)
\* The orders of findBasketItems' rows: the query has no ORDER BY.
Range(f) == {f[x] : x \in DOMAIN f}

RowOrders(its) ==
    {s \in [1..Len(its) -> 1..Len(its)] : \A i, j \in 1..Len(its) : i # j => s[i] # s[j]}

Rows(its) == {[i \in 1..Len(its) |-> its[s[i]]] : s \in RowOrders(its)}

\* FindByID without the sql.ErrNoRows test: a zero row is returned as found.
ProductFoundAlways(row) == TRUE

\* FindByID's sql.ErrNoRows test: whether the SELECT returned a row.
ProductFound(row) == row.live

BasketFound(row) == row.exists

\* Basket.IsEmpty
BasketIsEmpty(its) == Len(its) = 0

\* ------------------------------------------- product and basket services
\* The calls below run with no other call in flight; each is one action.
Quiet == \A c \in Procs : pc[c] = "idle"

\* ProductService.CreateProduct with a fresh id p.
CreateProduct(p, currency, stock) ==
    /\ Quiet
    /\ products[p] = NoProduct
    /\ LET price == NewMoney(PriceOf(p), currency)
           q == NewQuantity(stock)
       IN  /\ price.ok /\ q.ok
           /\ products' = [products EXCEPT ![p] = NewProduct(price.val, q.val)]
    /\ UNCHANGED <<baskets, orders, callVars, entVars>>

\* ProductService.UpdateStock: FindByID, Product.UpdateStock, Update.
UpdateStock(p, stock) ==
    /\ ~(stock < 0)
    /\ ProductFound(products[p])
    /\ NewQuantity(stock).ok
    /\ products[p].stock # stock
    /\ products' = [products EXCEPT ![p] =
                      ProductUpdateStock(products[p], NewQuantity(stock).val)]
    /\ UNCHANGED <<baskets, orders, callVars, entVars>>

\* ProductService.DeleteProduct.
DeleteProduct(p) ==
    /\ products[p].live
    /\ products' = [products EXCEPT ![p] = DeletedProduct]
    /\ UNCHANGED <<baskets, orders, callVars, entVars>>

\* BasketService.CreateBasket with a fresh id b.
CreateBasket(b) ==
    /\ Quiet
    /\ ~baskets[b].exists
    /\ baskets' = [baskets EXCEPT ![b] = [exists |-> TRUE, items |-> <<>>]]
    /\ UNCHANGED <<products, orders, callVars, entVars>>

\* BasketService.AddItem in one action, on the paths that reach
\* basketRepo.Update: the paths that fail before it write nothing.
AddItem(b, p, quantity) ==
    /\ Quiet
    /\ quantity > 0
    /\ baskets[b].exists
    /\ products[p].live
    /\ products[p].stock >= quantity
    /\ \E its \in Rows(baskets[b].items) :
          LET r == BasketAddItem(its, p, quantity, products[p].price)
          IN  /\ r.ok
              /\ \A i \in 1..Len(r.items) : r.items[i].quantity <= MaxQty
              /\ baskets' = [baskets EXCEPT ![b].items = r.items]
    /\ UNCHANGED <<products, orders, callVars, entVars>>

\* ------------------------------------------- OrderService.CreateOrder
\* A failing return that restores the product rows the call began with.
FailWithRollback(c, e) ==
    /\ pc' = [pc EXCEPT ![c] = "done"]
    /\ res' = [res EXCEPT ![c] = e]
    /\ products' = pre[c].products
    /\ UNCHANGED <<baskets, orders>>

\* The call returns (nil, err): nothing more of it runs, and what it has
\* written stays written.
Fail(c, e) ==
    /\ pc' = [pc EXCEPT ![c] = "done"]
    /\ res' = [res EXCEPT ![c] = e]
    /\ UNCHANGED <<products, baskets, orders>>

\* basketRepo.FindByID and the two guards before the loops.  f: the repository
\* call fails.
Begin(c, b, f) ==
    /\ pc[c] = "idle"
    /\ bid' = [bid EXCEPT ![c] = b]
    /\ pre' = [pre EXCEPT ![c] = [products |-> products, baskets |-> baskets,
                                  orders |-> orders,
                                  done |-> {d \in Procs : pc[d] = "done"}]]
    /\ IF b = "" THEN Fail(c, "basket ID is required") /\ UNCHANGED <<items, idx>>
       ELSE IF f THEN Fail(c, "storage failure") /\ UNCHANGED <<items, idx>>
       ELSE IF ~BasketFound(baskets[b])
       THEN Fail(c, "basket not found") /\ UNCHANGED <<items, idx>>
       ELSE IF BasketIsEmpty(baskets[b].items)
       THEN Fail(c, "cannot create order from empty basket") /\ UNCHANGED <<items, idx>>
       ELSE \E its \in Rows(baskets[b].items) :
               /\ items' = [items EXCEPT ![c] = its]
               /\ idx' = [idx EXCEPT ![c] = 1]
               /\ pc' = [pc EXCEPT ![c] = "check"]
               /\ UNCHANGED <<res, storage>>
    /\ UNCHANGED <<prod, out, checked, wrote, svc, entVars>>

\* The pre-check loop left after its first item.
CheckLoopLeavesEarly(i, n) == TRUE

\* Whether the pre-check loop is done once item i of n has passed.
CheckLoopLeaves(i, n) == i = n

\* The calls whose pre-check loop has passed every item.
PassedCheck == {d \in Procs : Len(items[d]) > 0 /\ checked[d] = 1..Len(items[d])}

\* The pre-check with its operands swapped.
StockSufficesSwapped(row, item) == ~(item.quantity < row.stock)

\* Whether the pre-check of one item against its product row passes.
StockSuffices(row, item) == ~(row.stock < item.quantity)

\* One iteration of the loop "Verify stock availability for all items".
CheckItem(c, f) ==
    /\ pc[c] = "check"
    /\ LET item == items[c][idx[c]]
           row == products[item.productID]
       IN  IF f THEN Fail(c, "storage failure") /\ UNCHANGED <<idx, checked>>
           ELSE IF ~ProductFound(row)
           THEN Fail(c, "product not found") /\ UNCHANGED <<idx, checked>>
           ELSE IF ~StockSuffices(row, item)
           THEN Fail(c, "insufficient stock for product") /\ UNCHANGED <<idx, checked>>
           ELSE /\ checked' = [checked EXCEPT ![c] = @ \cup {idx[c]}]
                /\ idx' = [idx EXCEPT ![c] =
                              IF CheckLoopLeaves(idx[c], Len(items[c])) THEN 1 ELSE @ + 1]
                /\ pc' = [pc EXCEPT ![c] =
                             IF CheckLoopLeaves(idx[c], Len(items[c])) THEN "reduce"
                             ELSE "check"]
                /\ UNCHANGED <<res, storage>>
    /\ UNCHANGED <<bid, items, prod, out, pre, wrote, svc, entVars>>

\* The reduce loop up to its write: productRepo.FindByID, Product.ReduceStock.
ReduceItem(c, f) ==
    /\ pc[c] = "reduce"
    /\ LET item == items[c][idx[c]]
           row == products[item.productID]
           r == ProductReduceStock(row, item.quantity)
       IN  IF f THEN Fail(c, "storage failure") /\ UNCHANGED prod
           ELSE IF ~ProductFound(row) THEN Fail(c, "product not found") /\ UNCHANGED prod
           ELSE IF ~r.ok THEN Fail(c, r.err) /\ UNCHANGED prod
           ELSE /\ prod' = [prod EXCEPT ![c] = r.val]
                /\ pc' = [pc EXCEPT ![c] = "update"]
                /\ UNCHANGED <<res, storage>>
    /\ UNCHANGED <<bid, items, idx, out, pre, checked, wrote, svc, entVars>>

\* An UPDATE with no WHERE clause.
UpdateEveryRow(rows, id, row) == [r \in DOMAIN rows |-> row]

\* productRepo.Update: the UPDATE statement writes the row the call holds.
UpdateProductRow(rows, id, row) == [rows EXCEPT ![id] = row]

\* The reduce loop left after its first item.
ReduceLoopLeavesEarly(i, n) == TRUE

\* Whether the reduce loop is done once item i of n has been written.
ReduceLoopLeaves(i, n) == i = n

\* The write of the reduce loop, and the loop's step to the next item.
UpdateItem(c, f) ==
    /\ pc[c] = "update"
    /\ LET id == items[c][idx[c]].productID
       IN  IF f THEN Fail(c, "storage failure") /\ UNCHANGED <<idx, wrote>>
           ELSE IF ~products[id].live
           THEN Fail(c, "product not found") /\ UNCHANGED <<idx, wrote>>
           ELSE /\ products' = UpdateProductRow(products, id, prod[c])
                /\ wrote' = [wrote EXCEPT ![c] = Append(@, [productID |-> id,
                                                            stock |-> prod[c].stock,
                                                            after |-> PassedCheck])]
                /\ idx' = [idx EXCEPT ![c] =
                              IF ReduceLoopLeaves(idx[c], Len(items[c])) THEN @ ELSE @ + 1]
                /\ pc' = [pc EXCEPT ![c] =
                             IF ReduceLoopLeaves(idx[c], Len(items[c])) THEN "order"
                             ELSE "reduce"]
                /\ UNCHANGED <<res, baskets, orders>>
    /\ UNCHANGED <<bid, items, prod, out, pre, checked, svc, entVars>>

\* entity.NewOrder(basket.Items()) and orderRepo.Save.
SaveOrder(c, f) ==
    /\ pc[c] = "order"
    /\ LET o == NewOrder(items[c], Len(orders) + 1, clock)
       IN  IF ~o.ok THEN Fail(c, o.err) /\ UNCHANGED out
           ELSE IF f THEN Fail(c, "storage failure") /\ out' = [out EXCEPT ![c] = o.val]
           ELSE /\ orders' = Append(orders, o.val)
                /\ out' = [out EXCEPT ![c] = o.val]
                /\ pc' = [pc EXCEPT ![c] = "clear"]
                /\ UNCHANGED <<res, products, baskets>>
    /\ UNCHANGED <<bid, items, idx, prod, pre, checked, wrote, svc, entVars>>

\* basket.Clear() and basketRepo.Update, then the response.
ClearBasket(c, f) ==
    /\ pc[c] = "clear"
    /\ IF f THEN Fail(c, "storage failure")
       ELSE IF ~baskets[bid[c]].exists THEN Fail(c, "basket not found")
       ELSE /\ baskets' = [baskets EXCEPT ![bid[c]].items = <<>>]
            /\ pc' = [pc EXCEPT ![c] = "done"]
            /\ res' = [res EXCEPT ![c] = "ok"]
            /\ UNCHANGED <<products, orders>>
    /\ UNCHANGED <<bid, items, idx, prod, out, pre, checked, wrote, svc, entVars>>

\* No other call is in flight.
Alone(c) == \A d \in Procs \ {c} : pc[d] \in {"idle", "done"}

\* ------------------------------------------ the sequential specification
\* Requests are served one at a time and storage never fails.  Products and
\* baskets are set up before the first checkout; basket b2 is never created.
Next ==
    \/ \E p \in ProductIds, cur \in Currencies, s \in 0..MaxStock : CreateProduct(p, cur, s)
    \/ \E p \in ProductIds, s \in 0..MaxStock : Quiet /\ UpdateStock(p, s)
    \/ \E p \in ProductIds : Quiet /\ DeleteProduct(p)
    \/ CreateBasket("b1")
    \/ \E p \in ProductIds, q \in 1..MaxQty : AddItem("b1", p, q)
    \/ \E c \in Procs, b \in BasketIds \cup {""} : Alone(c) /\ Begin(c, b, FALSE)
    \/ \E c \in Procs : Alone(c) /\ CheckItem(c, FALSE)
    \/ \E c \in Procs : Alone(c) /\ ReduceItem(c, FALSE)
    \/ \E c \in Procs : Alone(c) /\ UpdateItem(c, FALSE)
    \/ \E c \in Procs : Alone(c) /\ SaveOrder(c, FALSE)
    \/ \E c \in Procs : Alone(c) /\ ClearBasket(c, FALSE)

Spec == Init /\ [][Next]_vars

\* The lists of basket items an order is built from: one or two items of
\* different products, each at its product's catalogue price in some currency.
ItemsOf(p) ==
    {[productID |-> p, quantity |-> q, price |-> [amount |-> PriceOf(p), currency |-> cur]] :
        q \in 1..MaxQty, cur \in Currencies}

ItemLists ==
    {<<it>> : it \in UNION {ItemsOf(p) : p \in ProductIds}}
    \cup {<<it, jt>> : it \in ItemsOf("p1"), jt \in ItemsOf("p2")}
    \cup {<<jt, it>> : it \in ItemsOf("p1"), jt \in ItemsOf("p2")}

\* ------------------------------------------ the concurrent specification
\* Two CreateOrder calls run at once, each step one repository call.  The run
\* starts from a catalogue of two products and two stored baskets: b1 with one
\* or two items, b2 with one item of product p1.
UsdLists == {l \in ItemLists : \A i \in 1..Len(l) : l[i].price.currency = "USD"}

InitConc ==
    /\ \E s \in [ProductIds -> 0..MaxStock] :
          products = [p \in ProductIds |->
                        NewProduct([amount |-> PriceOf(p), currency |-> "USD"], s[p])]
    /\ \E l1 \in UsdLists, l2 \in {l \in UsdLists : Len(l) = 1 /\ l[1].productID = "p1"} :
          baskets = [b \in BasketIds |->
                       [exists |-> TRUE, items |-> IF b = "b1" THEN l1 ELSE l2]]
    /\ orders = <<>>
    /\ CallInit
    /\ EntIdle

NextConc ==
    \/ Begin("c1", "b1", FALSE)
    \/ \E b \in BasketIds : Begin("c2", b, FALSE)
    \/ \E c \in Procs : CheckItem(c, FALSE)
    \/ \E c \in Procs : ReduceItem(c, FALSE)
    \/ \E c \in Procs : UpdateItem(c, FALSE)
    \/ \E c \in Procs : SaveOrder(c, FALSE)
    \/ \E c \in Procs : ClearBasket(c, FALSE)

SpecConc == InitConc /\ [][NextConc]_vars

\* ------------------------------------- the specification with failures
\* One CreateOrder call on basket b1, or on the id b2 of no basket.  Any of its
\* repository calls may fail, and an administrator's UpdateStock and
\* DeleteProduct calls run between its steps.  The basket's items were added at
\* their products' prices.
InitFail ==
    /\ \E s \in [ProductIds -> 0..MaxStock], cur \in [ProductIds -> Currencies] :
          /\ cur["p1"] = "USD"
          /\ products = [p \in ProductIds |->
                           NewProduct([amount |-> PriceOf(p), currency |-> cur[p]], s[p])]
          /\ \E l \in ItemLists :
                /\ \A i \in 1..Len(l) : l[i].price = products[l[i].productID].price
                /\ baskets = [b \in BasketIds |->
                                IF b = "b1" THEN [exists |-> TRUE, items |-> l]
                                ELSE NoBasket]
    /\ orders = <<>>
    /\ CallInit
    /\ EntIdle

InFlight(c) == pc[c] \notin {"idle", "done"}

NextFail ==
    \/ \E b \in BasketIds, f \in BOOLEAN : Begin("c1", b, f)
    \/ \E f \in BOOLEAN : CheckItem("c1", f)
    \/ \E f \in BOOLEAN : ReduceItem("c1", f)
    \/ \E f \in BOOLEAN : UpdateItem("c1", f)
    \/ \E f \in BOOLEAN : SaveOrder("c1", f)
    \/ \E f \in BOOLEAN : ClearBasket("c1", f)
    \/ \E p \in ProductIds, s \in 0..MaxStock : InFlight("c1") /\ UpdateStock(p, s)
    \/ \E p \in ProductIds : InFlight("c1") /\ DeleteProduct(p)

SpecFail == InitFail /\ [][NextFail]_vars

\* ------------------------------------------------ the Order entity alone
\* An order fresh from NewOrder.
EntInit ==
    /\ \E its \in ItemLists :
          /\ NewOrder(its, 1, 0).ok
          /\ ent = NewOrder(its, 1, 0).val
    /\ call = NoCall
    /\ clock = 0
    /\ MemIdle

\* The caller's use of a method's result: the entity is the receiver, mutated
\* in place or left alone.
Called(op, r) ==
    /\ clock < MaxCalls
    /\ clock' = clock + 1
    /\ ent' = r.order
    /\ call' = [op |-> op, ok |-> r.ok, before |-> ent]
    /\ UNCHANGED <<storage, callVars, memVars>>

Confirm == Called("confirm", OrderConfirm(ent, clock + 1))

Ship == Called("ship", OrderShip(ent, clock + 1))

Deliver == Called("deliver", OrderDeliver(ent, clock + 1))

Cancel == Called("cancel", OrderCancel(ent, clock + 1))

NextOrder == Confirm \/ Ship \/ Deliver \/ Cancel

InitOrder == StorageInit /\ CallInit /\ EntInit

SpecOrder == InitOrder /\ [][NextOrder]_vars

\* ------------------------------- the order status services, step by step
\* OrderService.ConfirmOrder, ShipOrder, DeliverOrder and CancelOrder: each is
\* orderRepo.FindByID, the entity's method on the copy loaded, and
\* orderRepo.Update.  Two calls run at once on the one stored order.
OrderMethod(op, o, now) ==
    CASE op = "confirm" -> OrderConfirm(o, now)
      [] op = "ship" -> OrderShip(o, now)
      [] op = "deliver" -> OrderDeliver(o, now)
      [] op = "cancel" -> OrderCancel(o, now)

StatusOps == {"confirm", "ship", "deliver", "cancel"}

\* orderRepo.FindByID, then the method on the order loaded; a method that
\* fails ends the call.
FindOrder(c, op, id) ==
    /\ svc[c].pc \in {"idle", "done"}
    /\ clock < MaxCalls
    /\ clock' = clock + 1
    /\ IF id \notin 1..Len(orders)
       THEN svc' = [svc EXCEPT ![c] = [NoSvc EXCEPT !.op = op, !.pc = "done",
                                                    !.err = "order not found"]]
       ELSE LET r == OrderMethod(op, orders[id], clock + 1)
            IN  svc' = [svc EXCEPT ![c] =
                          [NoSvc EXCEPT !.op = op, !.order = r.order, !.err = r.err,
                                        !.pc = IF r.ok THEN "update" ELSE "done"]]
    /\ UNCHANGED <<storage, checkoutVars, ent, call, memVars>>

\* The row an UPDATE of the orders table leaves: total, status and updated_at
\* are set from the entity.
UpdatedOrderRow(row, o) ==
    [row EXCEPT !.total = o.total, !.status = o.status, !.updatedAt = o.updatedAt]

\* orderRepo.Update, then the response.
UpdateOrder(c) ==
    /\ svc[c].pc = "update"
    /\ svc[c].op \in StatusOps
    /\ LET o == svc[c].order
       IN  IF o.id \notin 1..Len(orders)
           THEN /\ svc' = [svc EXCEPT ![c].pc = "done", ![c].err = "order not found"]
                /\ UNCHANGED orders
           ELSE /\ orders' = [orders EXCEPT ![o.id] = UpdatedOrderRow(orders[o.id], o)]
                /\ svc' = [svc EXCEPT ![c].pc = "done", ![c].err = "ok"]
    /\ UNCHANGED <<products, baskets, checkoutVars, entVars>>

\* One order is stored, fresh from a checkout.
InitStatus ==
    /\ products = [p \in ProductIds |-> NoProduct]
    /\ baskets = [b \in BasketIds |-> NoBasket]
    /\ \E its \in ItemLists :
          /\ NewOrder(its, 1, 0).ok
          /\ orders = <<NewOrder(its, 1, 0).val>>
    /\ CallInit
    /\ EntIdle

NextStatus ==
    \/ \E c \in Procs, op \in StatusOps, id \in 1..2 : FindOrder(c, op, id)
    \/ \E c \in Procs : UpdateOrder(c)

SpecStatus == InitStatus /\ [][NextStatus]_vars

\* --------------------------------- BasketService.AddItem, step by step
\* toBasketResponse: the error it returns, "ok" for none.
ToBasketResponse(its) ==
    IF \E i \in 1..Len(its) : ~ItemSubtotal(its[i]).ok
    THEN ItemSubtotal(its[CHOOSE i \in 1..Len(its) :
                             /\ ~ItemSubtotal(its[i]).ok
                             /\ \A j \in 1..(i - 1) : ItemSubtotal(its[j]).ok]).err
    ELSE IF ~BasketTotal(its).ok THEN BasketTotal(its).err
    ELSE "ok"

\* The call returns err.
SvcDone(c, e) == svc' = [svc EXCEPT ![c].pc = "done", ![c].err = e]

\* The request's validation and basketRepo.FindByID.
AddFindBasket(c, b, p, q) ==
    /\ svc[c].pc = "idle"
    /\ LET s == [NoSvc EXCEPT !.op = "addItem", !.id = b, !.productID = p,
                              !.quantity = q, !.pre = baskets[b].items]
       IN  IF p = ""
           THEN svc' = [svc EXCEPT ![c] = [s EXCEPT !.pc = "done",
                                                    !.err = "product ID is required"]]
           ELSE IF q <= 0
           THEN svc' = [svc EXCEPT ![c] =
                          [s EXCEPT !.pc = "done",
                                    !.err = "quantity must be greater than zero"]]
           ELSE IF ~BasketFound(baskets[b])
           THEN svc' = [svc EXCEPT ![c] = [s EXCEPT !.pc = "done",
                                                    !.err = "basket not found"]]
           ELSE \E its \in Rows(baskets[b].items) :
                   svc' = [svc EXCEPT ![c] = [s EXCEPT !.pc = "product", !.items = its]]
    /\ UNCHANGED <<storage, checkoutVars, entVars>>

\* productRepo.FindByID, the stock check, and basket.AddItem on the basket
\* loaded.
AddFindProduct(c) ==
    /\ svc[c].pc = "product"
    /\ svc[c].op = "addItem"
    /\ LET row == products[svc[c].productID]
           requestedQty == NewQuantity(svc[c].quantity)
       IN  IF ~ProductFound(row) THEN SvcDone(c, "product not found")
           ELSE IF ~requestedQty.ok THEN SvcDone(c, requestedQty.err)
           ELSE IF row.stock < svc[c].quantity THEN SvcDone(c, "insufficient stock")
           ELSE LET r == BasketAddItem(svc[c].items, svc[c].productID,
                                       requestedQty.val, row.price)
                IN  IF ~r.ok THEN SvcDone(c, r.err)
                    ELSE svc' = [svc EXCEPT ![c].pc = "update", ![c].items = r.items,
                                            ![c].stock = row.stock]
    /\ UNCHANGED <<storage, checkoutVars, entVars>>

\* basketRepo.Update, one transaction that replaces the basket's items, and
\* then toBasketResponse.
AddUpdate(c) ==
    /\ svc[c].pc = "update"
    /\ svc[c].op = "addItem"
    /\ IF ~BasketFound(baskets[svc[c].id])
       THEN SvcDone(c, "basket not found") /\ UNCHANGED baskets
       ELSE /\ baskets' = [baskets EXCEPT ![svc[c].id].items = svc[c].items]
            /\ SvcDone(c, ToBasketResponse(svc[c].items))
    /\ UNCHANGED <<products, orders, checkoutVars, entVars>>

\* One CreateOrder call on basket b1 and one AddItem call, interleaved at
\* their repository calls.  The basket's items were added at their products'
\* prices; storage never fails.
InitAdd ==
    /\ \E s \in [ProductIds -> 0..MaxStock], cur \in [ProductIds -> Currencies] :
          /\ cur["p1"] = "USD"
          /\ products = [p \in ProductIds |->
                           NewProduct([amount |-> PriceOf(p), currency |-> cur[p]], s[p])]
          /\ \E l \in ItemLists \cup {<<>>} :
                /\ \A i \in 1..Len(l) : l[i].price = products[l[i].productID].price
                /\ baskets = [b \in BasketIds |->
                                IF b = "b1" THEN [exists |-> TRUE, items |-> l]
                                ELSE NoBasket]
    /\ orders = <<>>
    /\ CallInit
    /\ EntIdle

NextAdd ==
    \/ Begin("c1", "b1", FALSE)
    \/ CheckItem("c1", FALSE)
    \/ ReduceItem("c1", FALSE)
    \/ UpdateItem("c1", FALSE)
    \/ SaveOrder("c1", FALSE)
    \/ ClearBasket("c1", FALSE)
    \/ \E b \in BasketIds, p \in ProductIds \cup {""}, q \in 0..MaxQty :
          AddFindBasket("c2", b, p, q)
    \/ AddFindProduct("c2")
    \/ AddUpdate("c2")

SpecAdd == InitAdd /\ [][NextAdd]_vars

\* ------------------------------------------ everything running at once
\* Two CreateOrder calls, one AddItem call and an administrator's UpdateStock
\* calls, interleaved at their repository calls.  UpdateStock writes the
\* stock of its request whatever row it read, so its FindByID and Update are
\* one step here.  Both baskets hold product p1.
InitMix ==
    /\ \E s \in 0..MaxStock :
          products = [p \in ProductIds |->
                        NewProduct([amount |-> PriceOf(p), currency |-> "USD"],
                                   IF p = "p1" THEN s ELSE MaxStock)]
    /\ baskets = [b \in BasketIds |->
                    [exists |-> TRUE,
                     items |-> <<[productID |-> "p1",
                                  quantity |-> IF b = "b1" THEN MaxQty ELSE 1,
                                  price |-> [amount |-> PriceOf("p1"),
                                             currency |-> "USD"]]>>]]
    /\ orders = <<>>
    /\ CallInit
    /\ EntIdle

NextMix ==
    \/ Begin("c1", "b1", FALSE)
    \/ Begin("c2", "b2", FALSE)
    \/ \E c \in Procs : CheckItem(c, FALSE)
    \/ \E c \in Procs : ReduceItem(c, FALSE)
    \/ \E c \in Procs : UpdateItem(c, FALSE)
    \/ \E c \in Procs : SaveOrder(c, FALSE)
    \/ \E c \in Procs : ClearBasket(c, FALSE)
    \/ \E q \in 1..MaxQty : AddFindBasket("c1", "b2", "p1", q)
    \/ AddFindProduct("c1")
    \/ AddUpdate("c1")
    \/ \E s \in (-1)..MaxStock : UpdateStock("p1", s)

SpecMix == InitMix /\ [][NextMix]_vars

\* ------------------------------------------------ the value objects alone
\* Money values as NewMoney returns them, from zero to the largest amount.
Amounts == {0, 1, 250, MaxInt - 1, MaxInt}
Moneys == {NewMoney(a, cur).val : a \in Amounts, cur \in Currencies}

\* Quantity values as NewQuantity returns them.
Quantities == 0..(MaxQty + 1) \cup {MaxInt - 1, MaxInt}

\* Basket items as NewBasketItem returns them: a quantity above zero and a price.
ItemQtys == 1..(MaxQty + 1) \cup {MaxInt}
ItemPrices == {NewMoney(250, "USD").val, NewMoney(MaxInt, "USD").val, NewMoney(250, "EUR").val}
EntItems(p) ==
    {NewBasketItem(p, q, pr).val : q \in ItemQtys, pr \in ItemPrices}

\* The item lists a basket can hold: at most one item for a product.
EntLists ==
    {<<>>}
    \cup {<<it>> : it \in UNION {EntItems(p) : p \in ProductIds}}
    \cup {<<it, jt>> : it \in EntItems("p1"), jt \in EntItems("p2")}
    \cup {<<jt, it>> : it \in EntItems("p1"), jt \in EntItems("p2")}

\* The operands: three Money values; a product's stock and a quantity; a
\* basket's items with a product id and a quantity; or a basket's items with a
\* product id and the quantities and prices of two AddItem calls.
InitValue ==
    /\ StorageInit
    /\ CallInit
    /\ ent = NilOrder
    /\ call = NoCall
    /\ clock = 0
    /\ mem = [a \in ArrayIds |-> <<>>]
    /\ bsk = NilSlice
    /\ oitems = NilSlice
    /\ rec = NoRec
    /\ \/ \E a, b, c \in Moneys : arg = [kind |-> "money", a |-> a, b |-> b, c |-> c]
       \/ \E st, q \in Quantities : arg = [kind |-> "stock", stock |-> st, quantity |-> q]
       \/ \E m \in Moneys, n \in (-1)..(MaxQty + 1) : arg = [kind |-> "times", m |-> m, n |-> n]
       \/ \E its \in EntLists, p \in ProductIds, q \in {0} \cup ItemQtys :
             arg = [kind |-> "basket", items |-> its, productID |-> p, quantity |-> q]
       \/ \E its \in {l \in EntLists : Len(l) <= 1}, p \in ProductIds,
                q1, q2 \in ItemQtys, pr1, pr2 \in ItemPrices :
             arg = [kind |-> "add2", items |-> its, productID |-> p,
                    q1 |-> q1, price1 |-> pr1, q2 |-> q2, price2 |-> pr2]

\* r.Add(m) on the result r of an earlier Add; the caller stops at an error.
AddTo(r, m) == IF r.ok THEN MoneyAdd(r.val, m) ELSE r

\* m.Add(r) for the result r of an earlier Add.
AddOf(m, r) == IF r.ok THEN MoneyAdd(m, r.val) ELSE r

\* Money.Add applied to the operands, in both orders and both groupings.
ApplyAdd ==
    /\ rec = NoRec
    /\ arg.kind = "money"
    /\ rec' = [op |-> "add",
               ab |-> MoneyAdd(arg.a, arg.b),
               ba |-> MoneyAdd(arg.b, arg.a),
               ab_c |-> AddTo(MoneyAdd(arg.a, arg.b), arg.c),
               a_bc |-> AddOf(arg.a, MoneyAdd(arg.b, arg.c))]
    /\ UNCHANGED <<storage, callVars, ent, call, clock, mem, bsk, oitems, arg>>

\* total, err = total.Add(m), n times over, stopping at the first error.
RECURSIVE AddTimes(_, _, _)
AddTimes(total, m, n) ==
    IF n <= 0 THEN MoneyOk(total)
    ELSE LET t == MoneyAdd(total, m)
         IN  IF ~t.ok THEN t ELSE AddTimes(t.val, m, n - 1)

\* Money.Multiply applied to a Money value and a factor, and the value added
\* to a zero of its currency that many times.
ApplyMultiply ==
    /\ rec = NoRec
    /\ arg.kind = "times"
    /\ rec' = [op |-> "multiply",
               ret |-> MoneyMultiply(arg.m, arg.n),
               sum |-> AddTimes(NewMoney(0, arg.m.currency).val, arg.m, arg.n)]
    /\ UNCHANGED <<storage, callVars, ent, call, clock, mem, bsk, oitems, arg>>

\* Product.ReduceStock applied to a product with the given stock.
ApplyReduceStock ==
    /\ rec = NoRec
    /\ arg.kind = "stock"
    /\ LET p == NewProduct([amount |-> 250, currency |-> "USD"], arg.stock)
       IN  rec' = [op |-> "reduceStock", before |-> p,
                   ret |-> ProductReduceStock(p, arg.quantity)]
    /\ UNCHANGED <<storage, callVars, ent, call, clock, mem, bsk, oitems, arg>>

\* Basket.RemoveItem applied to a basket with the given items.
ApplyRemoveItem ==
    /\ rec = NoRec
    /\ arg.kind = "basket"
    /\ rec' = [op |-> "removeItem", ret |-> BasketRemoveItem(arg.items, arg.productID)]
    /\ UNCHANGED <<storage, callVars, ent, call, clock, mem, bsk, oitems, arg>>

\* Basket.UpdateItemQuantity applied to a basket with the given items.
ApplyUpdateItemQuantity ==
    /\ rec = NoRec
    /\ arg.kind = "basket"
    /\ rec' = [op |-> "updateItemQuantity",
               ret |-> BasketUpdateItemQuantity(arg.items, arg.productID, arg.quantity)]
    /\ UNCHANGED <<storage, callVars, ent, call, clock, mem, bsk, oitems, arg>>

\* Basket.Total applied to a basket with the given items.
ApplyTotal ==
    /\ rec = NoRec
    /\ arg.kind = "basket"
    /\ rec' = [op |-> "total", ret |-> BasketTotal(arg.items)]
    /\ UNCHANGED <<storage, callVars, ent, call, clock, mem, bsk, oitems, arg>>

\* Basket.ItemCount applied to a basket with the given items.
ApplyItemCount ==
    /\ rec = NoRec
    /\ arg.kind = "basket"
    /\ rec' = [op |-> "itemCount", ret |-> BasketItemCount(arg.items)]
    /\ UNCHANGED <<storage, callVars, ent, call, clock, mem, bsk, oitems, arg>>

\* NewOrder applied to the given basket items.
ApplyNewOrder ==
    /\ rec = NoRec
    /\ arg.kind = "basket"
    /\ rec' = [op |-> "newOrder", ret |-> NewOrder(arg.items, 1, 1)]
    /\ UNCHANGED <<storage, callVars, ent, call, clock, mem, bsk, oitems, arg>>

\* Basket.AddItem called twice for one product; the second call runs on the
\* items the first left, whether the first returned an error or not.
ApplyAddItemTwice ==
    /\ rec = NoRec
    /\ arg.kind = "add2"
    /\ LET r1 == BasketAddItem(arg.items, arg.productID, arg.q1, arg.price1)
           r2 == BasketAddItem(r1.items, arg.productID, arg.q2, arg.price2)
       IN  rec' = [op |-> "addItem", first |-> r1, ret |-> r2]
    /\ UNCHANGED <<storage, callVars, ent, call, clock, mem, bsk, oitems, arg>>

NextValue ==
    \/ ApplyAdd
    \/ ApplyMultiply
    \/ ApplyReduceStock
    \/ ApplyRemoveItem
    \/ ApplyUpdateItemQuantity
    \/ ApplyTotal
    \/ ApplyItemCount
    \/ ApplyNewOrder
    \/ ApplyAddItemTwice

SpecValue == InitValue /\ [][NextValue]_vars

\* ------------------------------------------- a Basket entity in memory
\* A Basket from NewBasket and the calls made on it, with the slices and their
\* backing arrays as Go keeps them: b.items[i] = x writes a cell of the array,
\* append writes past the length while the capacity allows and otherwise moves
\* the items to a new array, make allocates a new array.
Cells(sl) == IF sl.arr = 0 THEN <<>> ELSE SubSeq(mem[sl.arr], 1, sl.len)

Cap(sl) == IF sl.arr = 0 THEN 0 ELSE Len(mem[sl.arr])

\* An array no slice in held refers to.
Fresh(held) == CHOOSE a \in ArrayIds \ held : \A b \in ArrayIds \ held : a <= b

\* The capacity append gives the new array when need cells do not fit in cap.
GrownCap(cap, need) == IF need > 2 * cap THEN need ELSE 2 * cap

\* n nil cells.
NilCells(n) == [i \in 1..n |-> NilItem]

\* The arrays after a step, given the slices that are still held: an array no
\* slice refers to is freed, and a cell no slice reaches reads as nil.
Collect(m, slices) ==
    [a \in ArrayIds |->
        LET lens == {sl.len : sl \in {x \in slices : x.arr = a}}
        IN  IF lens = {} THEN <<>>
            ELSE [i \in 1..Len(m[a]) |->
                    IF \E n \in lens : i <= n THEN m[a][i] ELSE NilItem]]

\* The order's items alias the slice NewOrder was given.
OrderItemsAliased(basketArr) == basketArr

\* orderItems := make([]*OrderItem, 0, len(basketItems)): an array of its own.
OrderItemsArray(basketArr) == Fresh({basketArr})

\* NewBasket: items = make([]*BasketItem, 0).
InitBasket ==
    /\ StorageInit
    /\ CallInit
    /\ ent = NilOrder
    /\ call = NoCall
    /\ clock = 0
    /\ mem = [a \in ArrayIds |-> <<>>]
    /\ bsk = [arr |-> 1, len |-> 0]
    /\ oitems = NilSlice
    /\ rec = NoRec
    /\ arg = <<>>

\* The basket's items become nits: written over the cells of its array when
\* they fit its capacity, moved to a grown array when they do not.
StoreItems(nits) ==
    IF Len(nits) <= Cap(bsk)
    THEN /\ bsk' = [bsk EXCEPT !.len = Len(nits)]
         /\ mem' = Collect([mem EXCEPT ![bsk.arr] =
                               nits \o SubSeq(@, Len(nits) + 1, Len(@))],
                           {[bsk EXCEPT !.len = Len(nits)], oitems})
    ELSE LET a == Fresh({bsk.arr, oitems.arr})
             grown == nits \o NilCells(GrownCap(Cap(bsk), Len(nits)) - Len(nits))
         IN  /\ bsk' = [arr |-> a, len |-> Len(nits)]
             /\ mem' = Collect([mem EXCEPT ![a] = grown],
                               {[arr |-> a, len |-> Len(nits)], oitems})

\* What a call on the basket leaves alone.
Elsewhere == UNCHANGED <<storage, callVars, call, clock, rec, arg>>

\* The prices AddItem is called with.
AddPrices == {NewMoney(PriceOf(p), "USD").val : p \in ProductIds}

\* b.AddItem(productID, quantity, price)
CallAddItem(productID, quantity, price) ==
    LET r == BasketAddItem(Cells(bsk), productID, quantity, price)
    IN  /\ \A i \in 1..Len(r.items) : r.items[i].quantity <= MaxQty + 1
        /\ IF r.ok THEN StoreItems(r.items) ELSE UNCHANGED <<mem, bsk>>
        /\ Elsewhere
        /\ UNCHANGED <<ent, oitems>>

\* b.RemoveItem(productID)
CallRemoveItem(productID) ==
    LET r == BasketRemoveItem(Cells(bsk), productID)
    IN  /\ IF r.ok THEN StoreItems(r.items) ELSE UNCHANGED <<mem, bsk>>
        /\ Elsewhere
        /\ UNCHANGED <<ent, oitems>>

\* b.UpdateItemQuantity(productID, quantity)
CallUpdateItemQuantity(productID, quantity) ==
    LET r == BasketUpdateItemQuantity(Cells(bsk), productID, quantity)
    IN  /\ IF r.ok THEN StoreItems(r.items) ELSE UNCHANGED <<mem, bsk>>
        /\ Elsewhere
        /\ UNCHANGED <<ent, oitems>>

\* b.Clear(): items = make([]*BasketItem, 0).
CallClear ==
    LET a == Fresh({bsk.arr, oitems.arr})
    IN  /\ bsk' = [arr |-> a, len |-> 0]
        /\ mem' = Collect([mem EXCEPT ![a] = BasketClear(Cells(bsk))],
                          {[arr |-> a, len |-> 0], oitems})
        /\ Elsewhere
        /\ UNCHANGED <<ent, oitems>>

\* entity.NewOrder(b.Items()); the caller keeps the order it returns.
CallNewOrder ==
    LET o == NewOrder(Cells(bsk), 1, 0)
        a == OrderItemsArray(bsk.arr)
        sl == [arr |-> a, len |-> Len(o.val.items)]
    IN  /\ IF o.ok
           THEN /\ ent' = o.val
                /\ oitems' = sl
                /\ mem' = Collect([mem EXCEPT ![a] =
                                      o.val.items \o SubSeq(@, sl.len + 1, Len(@))],
                                  {bsk, sl})
           ELSE UNCHANGED <<ent, oitems, mem>>
        /\ Elsewhere
        /\ UNCHANGED bsk

NextBasket ==
    \/ \E p \in ProductIds, q \in 0..MaxQty, pr \in AddPrices : CallAddItem(p, q, pr)
    \/ \E p \in ProductIds : CallRemoveItem(p)
    \/ \E p \in ProductIds, q \in 0..MaxQty : CallUpdateItemQuantity(p, q)
    \/ CallClear
    \/ CallNewOrder

SpecBasket == InitBasket /\ [][NextBasket]_vars

\* ============================================================ properties
\* The call c has returned and no call has begun since.
Returned(c) ==
    /\ pc[c] = "done"
    /\ \A d \in Procs \ {c} : pc[d] = "idle" \/ d \in pre[c].done

\* The stored basket the call c was given, as it was when the call began.
PreBasket(c) == pre[c].baskets[bid[c]]

\* The units of product p in a list of items.
RECURSIVE UnitsOf(_, _)
UnitsOf(its, p) ==
    IF Len(its) = 0 THEN 0
    ELSE (IF Head(its).productID = p THEN Head(its).quantity ELSE 0) + UnitsOf(Tail(its), p)

RECURSIVE AmountOf(_)
AmountOf(its) ==
    IF Len(its) = 0 THEN 0
    ELSE Head(its).price.amount * Head(its).quantity + AmountOf(Tail(its))

SameItems(its, jts) ==
    /\ Len(its) = Len(jts)
    /\ \A i \in 1..Len(its) : \E j \in 1..Len(jts) : its[i] = jts[j]

StorageAsBefore(c) ==
    /\ products = pre[c].products
    /\ baskets = pre[c].baskets
    /\ orders = pre[c].orders

\* The call was given a stored, non-empty basket.
GivenItems(c) ==
    /\ bid[c] \in BasketIds
    /\ PreBasket(c).exists
    /\ Len(PreBasket(c).items) > 0

Missing(c, it) == ~pre[c].products[it.productID].live

OverStock(c, it) ==
    /\ pre[c].products[it.productID].live
    /\ it.quantity > pre[c].products[it.productID].stock

\* C1: a sequential checkout, with no storage failure, of a non-empty
\* single-currency basket whose every item asks for no more than its product's
\* stock returns a PENDING order whose total is the basket total before the
\* call, takes each item's quantity off its product's stored stock, and leaves
\* the stored basket empty.
C1_CheckoutSucceeds ==
    \A c \in Procs :
        (/\ Returned(c)
         /\ GivenItems(c)
         /\ \A it \in Range(PreBasket(c).items) :
               /\ it.price.currency = PreBasket(c).items[1].price.currency
               /\ pre[c].products[it.productID].live
               /\ it.quantity <= pre[c].products[it.productID].stock)
        => /\ res[c] = "ok"
           /\ out[c].status = "PENDING"
           /\ out[c].total = [amount |-> AmountOf(PreBasket(c).items),
                              currency |-> PreBasket(c).items[1].price.currency]
           /\ out[c].total = BasketTotal(PreBasket(c).items).val
           /\ SameItems(out[c].items, PreBasket(c).items)
           /\ orders = Append(pre[c].orders, out[c])
           /\ \A p \in ProductIds :
                 /\ products[p].live = pre[c].products[p].live
                 /\ products[p].stock =
                       pre[c].products[p].stock - UnitsOf(PreBasket(c).items, p)
           /\ baskets[bid[c]] = [exists |-> TRUE, items |-> <<>>]

\* A checkout of two items of one currency has returned an order.
C1_Witness ==
    \E c \in Procs :
        /\ Returned(c)
        /\ res[c] = "ok"
        /\ Len(out[c].items) = 2
        /\ out[c].total.amount = 2 * PriceOf("p1") + PriceOf("p2")
        /\ \E p \in ProductIds : products[p].stock > 0

\* What the pre-check loop finds wrong with an item, given the storage the call
\* began with.
Offence(c, it) ==
    IF Missing(c, it) THEN "product not found"
    ELSE IF OverStock(c, it) THEN "insufficient stock for product"
    ELSE "none"

\* The offence of the first offending item, in the order the call loaded the items.
FirstOffence(c) ==
    LET bad == {i \in 1..Len(items[c]) : Offence(c, items[c][i]) # "none"}
    IN  IF bad = {} THEN "none"
        ELSE Offence(c, items[c][CHOOSE i \in bad : \A j \in bad : i <= j])

HasOverStock(c) == GivenItems(c) /\ \E it \in Range(PreBasket(c).items) : OverStock(c, it)

HasMissing(c) == GivenItems(c) /\ \E it \in Range(PreBasket(c).items) : Missing(c, it)

\* C2 as claimed: a sequential checkout of a basket with an item that asks for
\* more than its product's stock fails with the insufficient-stock error and
\* changes no stock, stores no order and leaves the stored basket as it was.
C2_AsClaimed ==
    \A c \in Procs :
        (Returned(c) /\ HasOverStock(c))
        => /\ res[c] = "insufficient stock for product"
           /\ StorageAsBefore(c)

\* C2, amended: a sequential checkout, with no storage failure, of a basket with
\* an item that asks for more than its product's stock fails and changes no
\* stock, stores no order and leaves the stored basket as it was; the error is
\* that of the first offending item in the order the items were loaded:
\* insufficient stock, or product not found when an item whose product does not
\* exist comes first.
C2_OverStockFails ==
    \A c \in Procs :
        (Returned(c) /\ HasOverStock(c))
        => /\ res[c] = FirstOffence(c)
           /\ res[c] \in {"insufficient stock for product", "product not found"}
           /\ ~HasMissing(c) => res[c] = "insufficient stock for product"
           /\ StorageAsBefore(c)

\* The second of two items asked for too much; the first had passed.
C2_Witness ==
    \E c \in Procs :
        /\ Returned(c)
        /\ res[c] = "insufficient stock for product"
        /\ Len(items[c]) = 2
        /\ checked[c] = {1}
        /\ pre[c].products[items[c][1].productID].stock > 0

\* C10 as claimed: an absent basket id fails with basket not found, an empty
\* basket with the empty-basket error, a basket with an item whose product does
\* not exist with product not found; nothing is written in any of the three.
C10_AsClaimed ==
    \A c \in Procs :
        Returned(c) =>
           /\ (bid[c] \in BasketIds /\ ~PreBasket(c).exists)
                 => res[c] = "basket not found" /\ StorageAsBefore(c)
           /\ (bid[c] \in BasketIds /\ PreBasket(c).exists /\ Len(PreBasket(c).items) = 0)
                 => res[c] = "cannot create order from empty basket" /\ StorageAsBefore(c)
           /\ HasMissing(c) => res[c] = "product not found" /\ StorageAsBefore(c)

\* C10, amended: as claimed for the absent and the empty basket; a basket with an
\* item whose product does not exist fails, with nothing written, with the error
\* of the first offending item in the order the items were loaded: product not
\* found, or insufficient stock when an item that asks for more than its
\* product's stock comes first.
C10_NotFoundFails ==
    \A c \in Procs :
        Returned(c) =>
           /\ (bid[c] \in BasketIds /\ ~PreBasket(c).exists)
                 => res[c] = "basket not found" /\ StorageAsBefore(c)
           /\ (bid[c] \in BasketIds /\ PreBasket(c).exists /\ Len(PreBasket(c).items) = 0)
                 => res[c] = "cannot create order from empty basket" /\ StorageAsBefore(c)
           /\ HasMissing(c)
                 => /\ res[c] = FirstOffence(c)
                    /\ res[c] \in {"insufficient stock for product", "product not found"}
                    /\ ~HasOverStock(c) => res[c] = "product not found"
                    /\ StorageAsBefore(c)

\* One checkout was given an id with no basket, another a basket whose second
\* item's product had been deleted.
C10_Witness ==
    \E c, d \in Procs :
        /\ res[c] = "basket not found"
        /\ Returned(d)
        /\ res[d] = "product not found"
        /\ Len(items[d]) = 2
        /\ checked[d] = {1}

\* C3: confirm succeeds only from PENDING (giving CONFIRMED), ship only from
\* CONFIRMED (giving SHIPPED), deliver only from SHIPPED (giving DELIVERED); from
\* every other status each returns an error and leaves the status as it was.
C3_ForwardTransitions ==
    LET Only(op, from, to) ==
            call.op = op =>
               /\ call.ok <=> call.before.status = from
               /\ call.ok => ent.status = to
               /\ ~call.ok => ent.status = call.before.status
    IN  /\ Only("confirm", "PENDING", "CONFIRMED")
        /\ Only("ship", "CONFIRMED", "SHIPPED")
        /\ Only("deliver", "SHIPPED", "DELIVERED")

\* Confirm, ship and deliver in sequence have all succeeded.
C3_Witness ==
    /\ call.op = "deliver"
    /\ call.ok
    /\ call.before.status = "SHIPPED"
    /\ ent.status = "DELIVERED"
    /\ clock = 3

\* C4: cancel succeeds exactly from PENDING, CONFIRMED and SHIPPED, giving
\* CANCELLED, and fails from DELIVERED and CANCELLED leaving the status as it
\* was; isCancellable is true in exactly the states cancel succeeds from.
C4_Cancel ==
    /\ call.op = "cancel" =>
          /\ call.ok <=> call.before.status \in {"PENDING", "CONFIRMED", "SHIPPED"}
          /\ call.ok => ent.status = "CANCELLED"
          /\ ~call.ok => /\ ent.status = call.before.status
                         /\ ent.status \in {"DELIVERED", "CANCELLED"}
    /\ OrderIsCancellable(ent) <=> ent.status \in {"PENDING", "CONFIRMED", "SHIPPED"}
    /\ OrderIsCancellable(ent) <=> OrderCancel(ent, clock + 1).ok

\* A delivered order was asked to cancel and refused.
C4_Witness ==
    /\ call.op = "cancel"
    /\ ~call.ok
    /\ call.before.status = "DELIVERED"
    /\ ~OrderIsCancellable(ent)

\* C5: DELIVERED and CANCELLED are terminal: no call of confirm, ship, deliver
\* or cancel on an order in either status changes the status.
C5_Terminal ==
    [][ent.status \in {"DELIVERED", "CANCELLED"} => ent'.status = ent.status]_vars

\* A cancelled order has been called again.
C5_Witness ==
    /\ call.before.status = "CANCELLED"
    /\ ent.status = "CANCELLED"
    /\ call.op \in {"confirm", "ship", "deliver", "cancel"}

\* C13: confirm, ship, deliver and cancel never change an order's id, items or
\* total (nor createdAt); a successful call changes status and updatedAt only,
\* and a failed call leaves the whole order as it was.
C13_TransitionFrame ==
    call.op \in {"confirm", "ship", "deliver", "cancel"} =>
       /\ ent.id = call.before.id
       /\ ent.items = call.before.items
       /\ ent.total = call.before.total
       /\ call.ok => /\ ent = [call.before EXCEPT !.status = ent.status, !.updatedAt = clock]
                      /\ ent.status # call.before.status
                      /\ ent.updatedAt # call.before.updatedAt
       /\ ~call.ok => ent = call.before

\* A shipped order of two items refused to be confirmed again, and a call
\* before that one had succeeded.
C13_Witness ==
    /\ call.op = "confirm"
    /\ ~call.ok
    /\ ent.status = "SHIPPED"
    /\ ent.updatedAt = 2
    /\ clock = 3
    /\ Len(ent.items) = 2

\* The stock of p before both calls: the first call to begin saw it, and
\* checkouts only ever lower a stock.
StockBefore(p) ==
    IF pre["c1"].products[p].stock >= pre["c2"].products[p].stock
    THEN pre["c1"].products[p].stock
    ELSE pre["c2"].products[p].stock

BothOk == res["c1"] = "ok" /\ res["c2"] = "ok"

\* The writes of product p by the call c.
WritesOf(c, p) == {i \in 1..Len(wrote[c]) : wrote[c][i].productID = p}

\* Both calls succeeded on different baskets that ask, together, for more of p
\* than there was.
Oversold(p) ==
    /\ BothOk
    /\ bid["c1"] # bid["c2"]
    /\ UnitsOf(items["c1"], p) > 0
    /\ UnitsOf(items["c2"], p) > 0
    /\ UnitsOf(items["c1"], p) + UnitsOf(items["c2"], p) > StockBefore(p)

\* C7: two checkouts of different baskets with a common product can both
\* succeed although they ask, together, for more than the product's stock.
\* Whenever that happens both calls had passed the pre-check before either
\* write of the product landed, each wrote the stock it had read less its own
\* quantity, and the stored stock is short of one decrement, never negative.
C7_Oversell ==
    \A p \in ProductIds :
        Oversold(p) =>
           /\ \A c \in Procs : \A i \in WritesOf(c, p) :
                 /\ wrote[c][i].after = Procs
                 /\ wrote[c][i].stock = StockBefore(p) - UnitsOf(items[c], p)
           /\ \E c \in Procs : products[p].stock = StockBefore(p) - UnitsOf(items[c], p)
           /\ products[p].stock >= 0
           /\ Len(orders) = 2

\* Product p1 had 2 in stock; two baskets asked for 2 each and both were served.
C7_Witness ==
    /\ Oversold("p1")
    /\ StockBefore("p1") = 2
    /\ UnitsOf(items["c1"], "p1") = 2
    /\ UnitsOf(items["c2"], "p1") = 2
    /\ Len(orders) = 2

\* C8: two checkouts of the same basket are not serialized: both can load the
\* non-empty basket and both succeed.  Whenever both succeed, both had loaded the
\* same items, two orders of those items are stored, the basket is stored empty
\* and each product of the basket has lost its item's quantity once per order,
\* or once when one decrement overwrote the other.
C8_DoubleCheckout ==
    (BothOk /\ bid["c1"] = bid["c2"])
    => /\ SameItems(items["c1"], items["c2"])
       /\ Len(items["c1"]) > 0
       /\ Len(orders) = 2
       /\ orders[1].id # orders[2].id
       /\ \A i \in 1..2 : SameItems(orders[i].items, items["c1"])
       /\ baskets[bid["c1"]].items = <<>>
       /\ \A p \in ProductIds :
             \/ products[p].stock = StockBefore(p) - 2 * UnitsOf(items["c1"], p)
             \/ /\ products[p].stock = StockBefore(p) - UnitsOf(items["c1"], p)
                /\ \E c \in Procs : \E i \in WritesOf(c, p) : wrote[c][i].after = Procs

\* Both calls served the same two-item basket and every product of it lost its
\* quantity twice.
C8_Witness ==
    /\ BothOk
    /\ bid["c1"] = bid["c2"]
    /\ Len(items["c1"]) = 2
    /\ Len(orders) = 2
    /\ \A p \in ProductIds :
          /\ UnitsOf(items["c1"], p) > 0
          /\ products[p].stock = StockBefore(p) - 2 * UnitsOf(items["c1"], p)

\* C9: within one checkout no product is written until the pre-check loop has
\* loaded the product of every item and found its stock sufficient.
C9_CheckBeforeWrite ==
    \A c \in Procs :
        /\ wrote[c] # <<>> => checked[c] = 1..Len(items[c])
        /\ \A i \in 1..Len(wrote[c]) : c \in wrote[c][i].after
        /\ pc[c] \in {"reduce", "update", "order", "clear"} => checked[c] = 1..Len(items[c])

\* A call with two items has written the first and not yet the second.
C9_Witness ==
    \E c \in Procs :
        /\ Len(items[c]) = 2
        /\ Len(wrote[c]) = 1
        /\ pc[c] = "reduce"
        /\ checked[c] = {1, 2}

\* The call c fails on this step.
FailsNow(c) == pc[c] # "done" /\ pc'[c] = "done" /\ res'[c] # "ok"

\* C6: checkout performs no rollback.  The step on which a checkout fails
\* writes nothing, so the stock decrements and the order it had persisted stay
\* in storage; and a checkout that has failed takes no further step.
C6_NoRollback ==
    [][\A c \in Procs :
          /\ FailsNow(c) =>
                /\ products' = products
                /\ orders' = orders
                /\ baskets' = baskets
                /\ wrote'[c] = wrote[c]
          /\ pc[c] = "done" =>
                /\ pc'[c] = "done"
                /\ res'[c] = res[c]
                /\ wrote'[c] = wrote[c]
                /\ orders' = orders /\ baskets' = baskets]_vars

\* The first item's stock was written, then ReduceStock failed for the second:
\* the first decrement is still stored, no order is, and the basket is full.
C6_Witness ==
    /\ pc["c1"] = "done"
    /\ res["c1"] = "insufficient stock"
    /\ Len(items["c1"]) = 2
    /\ Len(wrote["c1"]) = 1
    /\ products[wrote["c1"][1].productID].stock = wrote["c1"][1].stock
    /\ wrote["c1"][1].stock < pre["c1"].products[wrote["c1"][1].productID].stock
    /\ orders = <<>>
    /\ baskets["b1"].items # <<>>

\* C19: ReduceStock(q) with q above the stock returns an error and leaves the
\* stock as it was; with q at most the stock it sets the stock to stock - q; the
\* stock is never negative afterwards, and Subtract never returns a negative
\* quantity.
C19_ReduceStock ==
    rec.op = "reduceStock" =>
       /\ arg.quantity > arg.stock => ~rec.ret.ok /\ rec.ret.val = rec.before
       /\ arg.quantity <= arg.stock
             => /\ rec.ret.ok
                /\ rec.ret.val = [rec.before EXCEPT !.stock = arg.stock - arg.quantity]
       /\ rec.ret.val.stock >= 0
       /\ LET d == QuantitySubtract(arg.stock, arg.quantity)
          IN  /\ d.ok <=> arg.quantity <= arg.stock
              /\ d.ok => d.val >= 0

\* ReduceStock of one more than the stock was refused.
C19_Witness ==
    /\ rec.op = "reduceStock"
    /\ arg.stock = MaxQty
    /\ arg.quantity = MaxQty + 1
    /\ ~rec.ret.ok
    /\ rec.ret.val.stock = MaxQty

\* C20 as claimed: Add on two values of one currency returns their summed
\* amount in that currency, commutes and associates; on values of different
\* currencies it fails and returns no Money.
C20_AsClaimed ==
    rec.op = "add" =>
       /\ arg.a.currency = arg.b.currency
             => /\ rec.ab.ok
                /\ rec.ab.val = [amount |-> arg.a.amount + arg.b.amount,
                                  currency |-> arg.a.currency]
                /\ rec.ab = rec.ba
       /\ (arg.a.currency = arg.b.currency /\ arg.b.currency = arg.c.currency)
             => rec.ab_c = rec.a_bc
       /\ arg.a.currency # arg.b.currency => ~rec.ab.ok /\ rec.ab.val = NilMoney

\* Whether a list of items has one for product p, and the items for other products.
Holds(its, p) == \E i \in 1..Len(its) : its[i].productID = p

OtherItems(its, p) == SelectSeq(its, LAMBDA it : it.productID # p)

\* C17: removeItem of a product the basket does not hold returns an error and
\* leaves the items as they were; removeItem of a product it holds removes
\* that one item and keeps every other item, with its quantity and price, in place.
C17_RemoveItem ==
    rec.op = "removeItem" =>
       /\ ~Holds(arg.items, arg.productID)
             => /\ ~rec.ret.ok
                /\ rec.ret.err = "item not found in basket"
                /\ rec.ret.items = arg.items
       /\ Holds(arg.items, arg.productID)
             => /\ rec.ret.ok
                /\ Len(rec.ret.items) = Len(arg.items) - 1
                /\ ~Holds(rec.ret.items, arg.productID)
                /\ rec.ret.items = OtherItems(arg.items, arg.productID)

\* The first of two items was removed and the second is what is left.
C17_Witness ==
    /\ rec.op = "removeItem"
    /\ rec.ret.ok
    /\ Len(arg.items) = 2
    /\ arg.items[1].productID = arg.productID
    /\ rec.ret.items = <<arg.items[2]>>

\* C16: updateItemQuantity(p, 0) has the effect and the result of
\* removeItem(p); updateItemQuantity(p, q) with q > 0 fails with item not found
\* when the basket has no item for p, and otherwise sets that item's quantity
\* to q, keeping its price and every other item.
C16_UpdateItemQuantity ==
    rec.op = "updateItemQuantity" =>
       /\ arg.quantity = 0
             => /\ rec.ret = BasketRemoveItem(arg.items, arg.productID)
                /\ rec.ret.ok <=> Holds(arg.items, arg.productID)
                /\ rec.ret.items = OtherItems(arg.items, arg.productID)
       /\ (arg.quantity > 0 /\ ~Holds(arg.items, arg.productID))
             => /\ ~rec.ret.ok
                /\ rec.ret.err = "item not found in basket"
                /\ rec.ret.items = arg.items
       /\ (arg.quantity > 0 /\ Holds(arg.items, arg.productID))
             => /\ rec.ret.ok
                /\ Len(rec.ret.items) = Len(arg.items)
                /\ \A i \in 1..Len(arg.items) :
                      rec.ret.items[i] =
                         IF arg.items[i].productID = arg.productID
                         THEN [arg.items[i] EXCEPT !.quantity = arg.quantity]
                         ELSE arg.items[i]

\* The second of two items had its quantity lowered from MaxQty + 1 to 1; its
\* price is the largest amount.
C16_Witness ==
    /\ rec.op = "updateItemQuantity"
    /\ rec.ret.ok
    /\ arg.quantity = 1
    /\ Len(arg.items) = 2
    /\ arg.items[2].productID = arg.productID
    /\ arg.items[2].quantity = MaxQty + 1
    /\ rec.ret.items[2].quantity = 1
    /\ rec.ret.items[2].price.amount = MaxInt

\* The items all have the currency of the first.
OneCurrency(its) == \A i \in 1..Len(its) : its[i].price.currency = its[1].price.currency

\* The units in a list of items, all products together.
RECURSIVE UnitsIn(_)
UnitsIn(its) == IF Len(its) = 0 THEN 0 ELSE Head(its).quantity + UnitsIn(Tail(its))

\* C18 as claimed: for a basket whose items share a currency, total() is the
\* sum over the items of price x quantity in that currency and itemCount() is
\* the sum of the item quantities; for an empty basket total() is 0 USD and
\* itemCount() is 0.
C18_AsClaimed ==
    /\ rec.op = "total" =>
          /\ (Len(arg.items) > 0 /\ OneCurrency(arg.items))
                => /\ rec.ret.ok
                   /\ rec.ret.val = [amount |-> AmountOf(arg.items),
                                      currency |-> arg.items[1].price.currency]
          /\ Len(arg.items) = 0
                => rec.ret.ok /\ rec.ret.val = [amount |-> 0, currency |-> "USD"]
    /\ rec.op = "itemCount" =>
          /\ rec.ret = UnitsIn(arg.items)
          /\ Len(arg.items) = 0 => rec.ret = 0

\* C11 as claimed: NewOrder fails on an empty list; for a non-empty list of
\* items of one currency it returns a PENDING order with one order item per
\* basket item, of the same product id, quantity and price, and a total that is
\* the sum over the items of price x quantity; for items of different
\* currencies it fails with the currency-mismatch error and returns no order.
C11_AsClaimed ==
    rec.op = "newOrder" =>
       /\ Len(arg.items) = 0 => ~rec.ret.ok /\ rec.ret.val = NilOrder
       /\ (Len(arg.items) > 0 /\ OneCurrency(arg.items))
             => /\ rec.ret.ok
                /\ rec.ret.val.status = "PENDING"
                /\ rec.ret.val.items = arg.items
                /\ rec.ret.val.total = [amount |-> AmountOf(arg.items),
                                        currency |-> arg.items[1].price.currency]
       /\ ~OneCurrency(arg.items)
             => /\ ~rec.ret.ok
                /\ rec.ret.err = "cannot add money with different currencies"
                /\ rec.ret.val = NilOrder

\* The items with the one for product p replaced by an item of quantity q and price pr.
WithItem(its, p, q, pr) ==
    [i \in 1..Len(its) |->
        IF its[i].productID = p THEN [productID |-> p, quantity |-> q, price |-> pr]
        ELSE its[i]]

\* C15 as claimed: addItem for a product, called with quantity q1 and then q2,
\* leaves exactly one item for that product, of quantity q1 + q2 and of the
\* price passed to the second call, and leaves every other item as it was; the
\* same holds of a single call for a product the basket already holds.
C15_AsClaimed ==
    rec.op = "addItem" =>
       /\ ~Holds(arg.items, arg.productID)
             => /\ rec.ret.ok
                /\ rec.ret.items =
                      Append(arg.items, [productID |-> arg.productID,
                                         quantity |-> arg.q1 + arg.q2,
                                         price |-> arg.price2])
       /\ Holds(arg.items, arg.productID)
             => /\ rec.first.ok
                /\ rec.first.items =
                      WithItem(arg.items, arg.productID,
                               arg.items[IndexOf(arg.items, arg.productID)].quantity + arg.q1,
                               arg.price1)

\* C14: after any sequence of addItem, removeItem, updateItemQuantity and clear
\* calls on a basket from NewBasket, no two items of the basket share a
\* productID.
C14_NoDuplicates ==
    \A i, j \in 1..bsk.len :
        i # j => Cells(bsk)[i].productID # Cells(bsk)[j].productID

\* Two items, the second of which has been added to by a second addItem.
C14_Witness ==
    /\ bsk.len = 2
    /\ Cells(bsk)[2].quantity = MaxQty + 1
    /\ Cells(bsk)[2].productID = "p1"

\* C12: the items of an order are a snapshot.  Once NewOrder(basket.Items())
\* has returned the order, no addItem, removeItem, updateItemQuantity or clear
\* on the basket changes the order's items (product ids, quantities, prices)
\* or its total.
C12_Snapshot ==
    oitems.arr # 0 =>
       /\ Cells(oitems) = ent.items
       /\ ent.total.amount = AmountOf(Cells(oitems))
       /\ ent.total = SumFrom(Cells(oitems), 1, NewMoney(0, ent.total.currency).val).val

\* An order was taken of two items; since then the basket's first item was
\* removed and what was its second was given another quantity.
C12_Witness ==
    /\ oitems.len = 2
    /\ bsk.len = 1
    /\ Cells(bsk)[1].productID = Cells(oitems)[2].productID
    /\ Cells(bsk)[1].quantity # Cells(oitems)[2].quantity
    /\ Cap(bsk) = 2

\* C21 as claimed: for every n >= 0 Multiply(n) returns what adding the money
\* to a zero of its currency n times returns, the amount x n exactly; for every
\* n < 0 it fails.
C21_AsClaimed ==
    rec.op = "multiply" =>
       /\ arg.n >= 0
             => /\ rec.ret.ok
                /\ rec.ret = rec.sum
                /\ rec.ret.val = [amount |-> arg.m.amount * arg.n,
                                  currency |-> arg.m.currency]
       /\ arg.n < 0 => ~rec.ret.ok /\ rec.ret.val = NilMoney

\* OrderHandler.CreateOrder: the status written for what the service returned.
OrderHandlerCreateOrder(err) ==
    IF err # "ok" THEN 400 ELSE 201

\* C22 as claimed: a checkout request that names an absent basket, or whose
\* basket holds an item of an absent product, and that fails for that reason,
\* is answered with status 404, not with the 400 of validation and
\* state-conflict errors.
C22_AsClaimed ==
    \A c \in Procs :
       Returned(c) /\ res[c] \in {"basket not found", "product not found"}
          => OrderHandlerCreateOrder(res[c]) = 404

\* C23 as claimed: in a sequential run with no storage failure, a checkout that
\* returns an error has changed nothing: every product row, every basket and
\* the stored orders are as they were when the call began, whatever
\* currencies the basket's items carry.
C23_AsClaimed ==
    \A c \in Procs :
       Returned(c) /\ res[c] # "ok" => StorageAsBefore(c)

\* The edges of the order state machine.
LegalEdge(from, to) ==
    \/ from = "PENDING" /\ to \in {"CONFIRMED", "CANCELLED"}
    \/ from = "CONFIRMED" /\ to \in {"SHIPPED", "CANCELLED"}
    \/ from = "SHIPPED" /\ to = "DELIVERED"

\* C24 as claimed: whatever the interleaving of concurrent ConfirmOrder,
\* ShipOrder, DeliverOrder and CancelOrder calls on one order, its stored
\* status changes only along an edge of the order state machine, so a stored
\* CANCELLED or DELIVERED is never replaced.
C24_AsClaimed ==
    [][orders[1].status # orders'[1].status
          => LegalEdge(orders[1].status, orders'[1].status)]_vars

\* C25: whatever the interleaving of concurrent checkouts, an AddItem call and
\* the administrator's UpdateStock calls, the stored stock of every product
\* is at least zero.
C25_StockNeverNegative ==
    \A p \in ProductIds : products[p].stock >= 0

\* Both checkouts and the AddItem call succeeded, the stock was raised by an
\* UpdateStock between the two checkouts' beginnings, and nothing is left.
C25_Witness ==
    /\ BothOk
    /\ svc["c1"].err = "ok"
    /\ wrote["c1"] # <<>> /\ wrote["c2"] # <<>>
    /\ pre["c2"].products["p1"].stock > pre["c1"].products["p1"].stock
    /\ products["p1"].stock = 0

\* The order the call c built is in the orders table.
Saved(c) == \E i \in 1..Len(orders) : orders[i] = out[c] /\ out[c] # NilOrder

\* The call c has written the reduced stock of every item it loaded, in the
\* items' order.
AllReduced(c) ==
    /\ Len(wrote[c]) = Len(items[c])
    /\ \A i \in 1..Len(items[c]) : wrote[c][i].productID = items[c][i].productID

\* C26: the writes of a checkout come in the order stock updates, order save,
\* basket clear.  A stock write of the call is made before its order is saved
\* and leaves orders and baskets alone; the order is saved after the stock of
\* every item has been written, in a step that leaves products and baskets
\* alone; the basket is cleared by a call whose order is saved.  So a saved
\* order has all its decrements persisted, and a call that has returned
\* without a saved order has not touched the basket.
C26_EffectOrder ==
    /\ [](\A c \in Procs : Saved(c) => AllReduced(c))
    /\ [][\A c \in Procs :
             /\ wrote'[c] # wrote[c]
                   => ~Saved(c) /\ orders' = orders /\ baskets' = baskets
             /\ ~Saved(c) /\ Saved(c)'
                   => AllReduced(c) /\ products' = products /\ baskets' = baskets
             /\ baskets' # baskets
                   => \E d \in Procs : Saved(d) /\ pc[d] = "clear" /\ orders' = orders]_vars

\* A checkout of two items that has saved its order and cleared the basket.
C26_Witness ==
    \E c \in Procs :
       /\ res[c] = "ok"
       /\ Len(items[c]) = 2
       /\ Saved(c)
       /\ AllReduced(c)
       /\ baskets[bid[c]].items = <<>>

\* The AddItem call c has returned.
AddReturned(c) == svc[c].op = "addItem" /\ svc[c].pc = "done"

\* C27 as claimed: an AddItem call that returns an error, with no other call
\* running, leaves the stored basket as it was when the call began.
C27_AsClaimed ==
    \A c \in Procs :
       AddReturned(c) /\ svc[c].err # "ok" /\ pc["c1"] = "idle"
          => SameItems(baskets[svc[c].id].items, svc[c].pre)

\* C28 as claimed: once a checkout and an AddItem call on the same basket have
\* both finished, the item of a successful AddItem is in the order the
\* checkout created or in the stored basket.
C28_AsClaimed ==
    \A c \in Procs :
       /\ AddReturned(c) /\ svc[c].err = "ok"
       /\ pc["c1"] = "done" /\ bid["c1"] = svc[c].id
       => \/ Holds(baskets[svc[c].id].items, svc[c].productID)
          \/ Saved("c1") /\ Holds(out["c1"].items, svc[c].productID)

\* C29 as claimed: after a successful AddItem the quantity of the item of the
\* product added, what the basket held plus what was added, is no more than
\* the product's stock as the call read it.
C29_AsClaimed ==
    \A c \in Procs :
       AddReturned(c) /\ svc[c].err = "ok"
          => UnitsOf(svc[c].items, svc[c].productID) <= svc[c].stock

\* C30: after any sequence of AddItem, RemoveItem, UpdateItemQuantity and
\* Clear calls, failed ones included, on a basket made by NewBasket, every
\* item of the basket has a quantity greater than zero, and NewOrder on the
\* basket's items does not fail for a zero quantity.
C30_PositiveQuantities ==
    /\ \A i \in 1..bsk.len : Cells(bsk)[i].quantity > 0
    /\ NewOrder(Cells(bsk), 1, 0).err # "quantity must be greater than zero"

\* A basket of two items with different quantities, changed after an order
\* was built from its only item.
C30_Witness ==
    /\ bsk.len = 2
    /\ Cells(bsk)[1].quantity = 1
    /\ Cells(bsk)[2].quantity = MaxQty + 1
    /\ ent.status = "PENDING"
    /\ Len(ent.items) = 1

====
